---- MODULE Spec2Model ----
(***************************************************************************)
(* The appointment scheduling engine of the OSDS appointment server:       *)
(* calendar rules, the appointment store and its conflict query, the busy  *)
(* day store, and the services that create, update, delete and cascade     *)
(* appointments.                                                           *)
(*                                                                         *)
(* Time.  A JavaScript Date is an instant; the model counts instants in    *)
(* minutes since the epoch (UTC).  The code reads an instant both through  *)
(* the UTC accessors (getUTCDate, Date.UTC, toISOString) and through the   *)
(* local ones (getHours, setHours, getDay, setDate), so the server's zone  *)
(* offset tz is part of the state: it is fixed when the process starts.    *)
(* The current instant, new Date(), is an input of each call.              *)
(* Day 0 is 1970-01-01, a Thursday.                                         *)
(***************************************************************************)
EXTENDS Integers, Sequences, FiniteSets, TLC

VARIABLES
    tz,         \* the server's zone offset, minutes east of UTC
    appts,      \* the appointment table: id -> row
    nextId,     \* the table's AUTO_INCREMENT counter
    busyDays,   \* the busyDay table: the set of stored date instants
    busySlots,  \* the busyTimeSlot table: a set of rows
    nextSlotId, \* that table's AUTO_INCREMENT counter
    last,       \* the outcome of the last service call
    inFlight    \* the calls that run step by step: caller -> position and
                \* what the call has read so far

vars == <<tz, appts, nextId, busyDays, busySlots, nextSlotId, last, inFlight>>

----------------------------------------------------------------------------
(* Bounds of the model *)

\* the number of rows the appointment table may ever hold
MaxAppts == 2
\* the number of rows the busyTimeSlot table may ever hold
MaxSlots == 2
\* requests name the calendar days 1 .. MaxDay: Friday, Saturday, ...
MaxDay == 2

(* Program constants *)

DeadlineHour == 14
LunchStartHour == 12
LunchEndHour == 13
SearchHorizon == 60

MinutesPerDay == 24 * 60

\* the zones the server is run in: UTC and Asia/Manila (UTC+8)
Zones == {0, 8 * 60}

Days == 1 .. MaxDay


NoId == 0

----------------------------------------------------------------------------
(* Date arithmetic *)

\* Date.UTC(getUTCFullYear(), getUTCMonth(), getUTCDate())
getUTCDateOnly(t) == (t \div MinutesPerDay) * MinutesPerDay

\* toISOString().split("T")[0]: the UTC calendar day of an instant
ISODate(t) == t \div MinutesPerDay

\* the local calendar day of an instant (getFullYear, getMonth, getDate)
LocalDay(t) == (t + tz) \div MinutesPerDay

\* getHours() * 60 + getMinutes()
LocalTod(t) == (t + tz) % MinutesPerDay

\* new Date(year, month, day, h, m, 0, 0): local fields to an instant
LocalDate(day, tod) == day * MinutesPerDay + tod - tz

\* d.setHours(h, m, 0, 0)
SetHours(t, tod) == LocalDate(LocalDay(t), tod)

\* d.setHours(0, 0, 0, 0)
StartOfDay(t) == SetHours(t, 0)

\* d.setHours(23, 59, 59, 999), to the model's minute
EndOfDay(t) == SetHours(t, MinutesPerDay - 1)

\* d.setDate(d.getDate() + i)
AddDays(t, i) == LocalDate(LocalDay(t) + i, LocalTod(t))

\* d.getDay(): 0 is Sunday
getDay(t) == (LocalDay(t) + 4) % 7

----------------------------------------------------------------------------
(* Calendar rules *)

isWeekday(date) == getDay(date) >= 1 /\ getDay(date) <= 5

isBeforeDeadline(dateTime) == dateTime < SetHours(dateTime, DeadlineHour * 60)

overlapsLunchBreak(startTime, endTime) ==
    /\ startTime < SetHours(startTime, LunchEndHour * 60)
    /\ endTime > SetHours(startTime, LunchStartHour * 60)

\* the error validateDeadline throws, "none" when it returns
validateDeadline(appointmentDate, requestTime) ==
    IF ~isWeekday(appointmentDate) THEN "weekday"
    ELSE IF /\ StartOfDay(appointmentDate) = StartOfDay(requestTime)
            /\ ~isBeforeDeadline(requestTime) THEN "deadline"
    ELSE "none"

----------------------------------------------------------------------------
(* The appointment store (appointment-data) *)

Ids == DOMAIN appts

\* a query that takes touching intervals for overlapping
findConflictingAppointmentsClosed(tbl, appointmentDate, startTime, endTime, excludeAppointmentId) ==
    { i \in DOMAIN tbl :
        /\ tbl[i].date >= StartOfDay(appointmentDate)
        /\ tbl[i].date <= EndOfDay(appointmentDate)
        /\ tbl[i].isDeleted = FALSE
        /\ tbl[i].status = "approved"
        /\ (excludeAppointmentId # NoId => i # excludeAppointmentId)
        /\ tbl[i].start <= endTime
        /\ tbl[i].end >= startTime }

\* findConflictingAppointments on the table tbl: the ids of the rows returned
findConflictingAppointments(tbl, appointmentDate, startTime, endTime, excludeAppointmentId) ==
    { i \in DOMAIN tbl :
        /\ tbl[i].date >= StartOfDay(appointmentDate)
        /\ tbl[i].date <= EndOfDay(appointmentDate)
        /\ tbl[i].isDeleted = FALSE
        /\ tbl[i].status = "approved"
        /\ (excludeAppointmentId # NoId => i # excludeAppointmentId)
        /\ tbl[i].start < endTime
        /\ tbl[i].end > startTime }

\* a set of ids as a list, largest first
RECURSIVE DescSeq(_)
DescSeq(S) ==
    IF S = {} THEN <<>>
    ELSE LET m == CHOOSE x \in S : \A y \in S : y <= x
         IN  <<m>> \o DescSeq(S \ {m})

\* a query by date that returns the soft-deleted rows too
findAllAppointmentsAny(tbl, date) ==
    DescSeq({ i \in DOMAIN tbl :
        /\ tbl[i].date >= StartOfDay(date)
        /\ tbl[i].date <= EndOfDay(date) })

\* findAllAppointments({date, isDeleted: false}): ids, newest first
\* (orderBy createdAt desc; rows are created in id order)
findAllAppointments(tbl, date) ==
    DescSeq({ i \in DOMAIN tbl :
        /\ tbl[i].isDeleted = FALSE
        /\ tbl[i].date >= StartOfDay(date)
        /\ tbl[i].date <= EndOfDay(date) })

\* getAllAppointments({}): findAllAppointments without options, where
\* isDeleted defaults to false
getAllAppointments(tbl) ==
    DescSeq({ i \in DOMAIN tbl : tbl[i].isDeleted = FALSE })

----------------------------------------------------------------------------
(* The busy day store (busy-day-data) *)

NoDate == -1

\* markDayAsBusy: upsert keyed by the normalized date
markDayAsBusyData(bds, date) == bds \cup {StartOfDay(date)}

\* a delete that removes nothing
unmarkDayAsBusyKeeping(bds, date) == bds

\* unmarkDayAsBusy: delete by the normalized date
unmarkDayAsBusyData(bds, date) == bds \ {StartOfDay(date)}

isDayBusy(bds, date) == StartOfDay(date) \in bds

getAllBusyDays(bds, startDate, endDate) ==
    { b \in bds : b >= StartOfDay(startDate) /\ b <= EndOfDay(endDate) }

\* the loop of findNextAvailableDate from iteration i on
RECURSIVE ScanDates(_, _, _, _, _, _, _)
ScanDates(tbl, busyDatesSet, searchDate, startTime, endTime, maxDays, i) ==
    IF i >= maxDays THEN NoDate
    ELSE LET checkDate == AddDays(searchDate, i)
             checkStartTime == SetHours(checkDate, LocalTod(startTime))
             checkEndTime == SetHours(checkDate, LocalTod(endTime))
         IN  IF ISODate(checkDate) \in busyDatesSet
             THEN ScanDates(tbl, busyDatesSet, searchDate, startTime, endTime, maxDays, i + 1)
             ELSE IF findConflictingAppointments(tbl, checkDate, checkStartTime,
                                                 checkEndTime, NoId) = {}
             THEN checkDate
             ELSE ScanDates(tbl, busyDatesSet, searchDate, startTime, endTime, maxDays, i + 1)

\* a search that takes no day for busy
findNextAvailableDateNoSkip(tbl, bds, startDate, startTime, endTime, maxDays) ==
    ScanDates(tbl, {}, StartOfDay(startDate), startTime, endTime, maxDays, 0)

\* a search that returns the first day without a busy day record, whatever
\* is booked on it
findNextAvailableDateUnbooked(tbl, bds, startDate, startTime, endTime, maxDays) ==
    LET searchDate == StartOfDay(startDate)
        open == { i \in 0 .. maxDays - 1 :
                    \A b \in bds : ISODate(b) # ISODate(AddDays(searchDate, i)) }
    IN  IF open = {} THEN NoDate
        ELSE AddDays(searchDate, CHOOSE i \in open : \A j \in open : i <= j)

findNextAvailableDate(tbl, bds, startDate, startTime, endTime, maxDays) ==
    LET searchDate == StartOfDay(startDate)
        endSearchDate == AddDays(searchDate, maxDays)
        busyDatesSet == { ISODate(b) : b \in getAllBusyDays(bds, searchDate, endSearchDate) }
    IN  ScanDates(tbl, busyDatesSet, searchDate, startTime, endTime, maxDays, 0)

----------------------------------------------------------------------------
(* The busy time slot store (busy-time-slot-data) *)

isTimeSlotBusy(slots, date, startTime, endTime) ==
    \E s \in slots :
        /\ s.date = LocalDay(date) * MinutesPerDay
        /\ startTime < s.end
        /\ endTime > s.start

----------------------------------------------------------------------------
(* Outcomes *)

NoTime == -1

\* no call is between two of its steps
NoCalls == << >>

NoSummary == [day |-> NoDate, moved |-> <<>>, failed |-> <<>>, reasons |-> <<>>]

\* the outcome of a call made at instant `at`: err is "none" when it
\* returned, else the kind of the error it threw
Outcome(op, err, at) ==
    [op |-> op, err |-> err, at |-> at, summary |-> NoSummary]

----------------------------------------------------------------------------
(* appointment-services: createAppointment *)

\* the error createAppointment throws for a request, "none" when it writes
CreateError(req) ==
    IF ~req.fullName THEN "Full name is required"
    ELSE IF ~req.email THEN "DepEd email is required"
    ELSE IF req.start >= req.end THEN "validation"
    ELSE IF \/ getUTCDateOnly(req.start) # getUTCDateOnly(req.date)
            \/ getUTCDateOnly(req.end) # getUTCDateOnly(req.date) THEN "validation"
    ELSE "none"

\* appointment-data createAppointment: the row written
CreatedRow(req) ==
    [date |-> req.date, start |-> req.start, end |-> req.end,
     status |-> req.status, isDeleted |-> FALSE]

CreateAppointment(req, requestTime) ==
    LET err == CreateError(req) IN
    /\ IF err = "none"
       THEN /\ appts' = [i \in Ids \cup {nextId} |->
                            IF i = nextId THEN CreatedRow(req) ELSE appts[i]]
            /\ nextId' = nextId + 1
       ELSE UNCHANGED <<appts, nextId>>
    /\ last' = [op |-> "create", err |-> err, at |-> requestTime,
                summary |-> NoSummary, req |-> req]
    /\ UNCHANGED <<tz, inFlight, busyDays, busySlots, nextSlotId>>

\* the row the last successful createAppointment wrote
Created == appts[nextId - 1]

----------------------------------------------------------------------------
(* appointment-services: updateAppointment *)

PatchStart(id, patch) == IF patch.start # NoTime THEN patch.start ELSE appts[id].start
PatchEnd(id, patch) == IF patch.end # NoTime THEN patch.end ELSE appts[id].end

\* appointmentDate derived from startTime, forced to UTC midnight
derivedAppointmentDate(id, patch) == getUTCDateOnly(PatchStart(id, patch))

TouchesSchedule(patch) ==
    patch.date # NoDate \/ patch.start # NoTime \/ patch.end # NoTime

\* an update that re-validates the schedule whatever the patch holds
UpdateErrorRevalidating(id, patch, requestTime) ==
    IF id \notin Ids THEN "notfound"
    ELSE LET startTime == PatchStart(id, patch)
             endTime == PatchEnd(id, patch)
             date == derivedAppointmentDate(id, patch)
         IN  IF startTime >= endTime THEN "validation"
             ELSE IF \/ getUTCDateOnly(startTime) # date
                     \/ getUTCDateOnly(endTime) # date THEN "validation"
             ELSE IF validateDeadline(date, requestTime) # "none"
                  THEN validateDeadline(date, requestTime)
             ELSE IF overlapsLunchBreak(startTime, endTime) THEN "lunch"
             ELSE IF isDayBusy(busyDays, date) THEN "daybusy"
             ELSE IF isTimeSlotBusy(busySlots, date, startTime, endTime)
                  THEN "slotbusy"
             ELSE IF findConflictingAppointments(appts, date, startTime, endTime, id) # {}
                  THEN "conflict"
             ELSE "none"

\* the error the checks of updateAppointment throw, "none" when they pass,
\* for the row existingAppointment that findAppointmentById returned
CheckError(existingAppointment, id, patch, requestTime) ==
    LET startTime == IF patch.start # NoTime THEN patch.start
                     ELSE existingAppointment.start
        endTime == IF patch.end # NoTime THEN patch.end
                   ELSE existingAppointment.end
        date == getUTCDateOnly(startTime)
    IN  IF startTime >= endTime THEN "validation"
        ELSE IF \/ getUTCDateOnly(startTime) # date
                \/ getUTCDateOnly(endTime) # date THEN "validation"
        ELSE IF TouchesSchedule(patch) /\ validateDeadline(date, requestTime) # "none"
             THEN validateDeadline(date, requestTime)
        ELSE IF TouchesSchedule(patch) /\ overlapsLunchBreak(startTime, endTime)
             THEN "lunch"
        ELSE IF TouchesSchedule(patch) /\ isDayBusy(busyDays, date)
             THEN "daybusy"
        ELSE IF TouchesSchedule(patch) /\ isTimeSlotBusy(busySlots, date, startTime, endTime)
             THEN "slotbusy"
        ELSE IF findConflictingAppointments(appts, date, startTime, endTime, id) # {}
             THEN "conflict"
        ELSE "none"

\* the error updateAppointment throws, "none" when it reaches the write
UpdateError(id, patch, requestTime) ==
    IF id \notin Ids THEN "notfound"
    ELSE CheckError(appts[id], id, patch, requestTime)

\* appointment-data updateAppointment as the service calls it
UpdatedRow(id, patch) ==
    [ appts[id] EXCEPT
        !.date = derivedAppointmentDate(id, patch),
        !.start = PatchStart(id, patch),
        !.end = PatchEnd(id, patch),
        !.status = IF patch.status # "absent" THEN patch.status ELSE @ ]

\* updatedAppointment.email: the data layer writes no contact email, in
\* createAppointment or in updateAppointment, so the row it returns has none
emailOf(row) == IF "email" \in DOMAIN row THEN row.email ELSE FALSE

\* the notices updateAppointment sends after the write
Notifications(id, patch) ==
    LET updatedAppointment == UpdatedRow(id, patch)
        previousStatus == appts[id].status
    IN  IF ~emailOf(updatedAppointment) THEN {}
        ELSE { n \in {"approved", "rejected", "rescheduled"} :
                 \/ n = "approved" /\ patch.status = "approved"
                                    /\ previousStatus # "approved"
                 \/ n = "rejected" /\ patch.status = "rejected"
                                    /\ previousStatus # "rejected"
                 \/ n = "rescheduled" /\ TouchesSchedule(patch) }

\* what updateAppointment does to the stores
UpdateWrite(id, patch, requestTime) ==
    /\ IF UpdateError(id, patch, requestTime) = "none"
       THEN appts' = [appts EXCEPT ![id] = UpdatedRow(id, patch)]
       ELSE UNCHANGED appts
    /\ UNCHANGED <<tz, inFlight, nextId, busyDays, busySlots, nextSlotId>>

\* the notices of a call: none when it threw before the write
Sent(id, patch, requestTime) ==
    IF UpdateError(id, patch, requestTime) = "none"
    THEN Notifications(id, patch) ELSE {}

UpdateAppointment(id, patch, requestTime) ==
    /\ UpdateWrite(id, patch, requestTime)
    /\ last' = [ op |-> "update", err |-> UpdateError(id, patch, requestTime),
                 at |-> requestTime, summary |-> NoSummary,
                 sent |-> Sent(id, patch, requestTime) ]

\* the same call, its outcome keeping the id, the patch and the row as it
\* was stored before the call (NoRow for an id that is not in the table)
NoRow == [status |-> "absent"]

UpdateAppointmentLogged(id, patch, requestTime) ==
    /\ UpdateWrite(id, patch, requestTime)
    /\ last' = [ op |-> "update", err |-> UpdateError(id, patch, requestTime),
                 at |-> requestTime, summary |-> NoSummary,
                 sent |-> Sent(id, patch, requestTime),
                 id |-> id, patch |-> patch,
                 previous |-> IF id \in Ids THEN appts[id] ELSE NoRow ]

\* what may go wrong after the checks: the store refuses the write, or the
\* mailer refuses a notice
Faults == {"none", "storeFails", "mailFails"}

\* the error of a call under a fault: the checks' error, else the store's,
\* else the mailer's when a notice was to be sent
FaultyError(id, patch, requestTime, fault) ==
    LET err == UpdateError(id, patch, requestTime) IN
    IF err # "none" THEN err
    ELSE IF fault = "storeFails" THEN "Error updating appointment"
    ELSE IF fault = "mailFails" /\ Notifications(id, patch) # {}
         THEN "Error sending notification"
    ELSE "none"

\* an update that writes before it knows whether the store took the write
UpdateAppointmentWritingFirst(id, patch, requestTime, fault) ==
    /\ IF UpdateError(id, patch, requestTime) = "none"
       THEN appts' = [appts EXCEPT ![id] = UpdatedRow(id, patch)]
       ELSE UNCHANGED appts
    /\ last' = [ op |-> "update",
                 err |-> IF UpdateError(id, patch, requestTime) # "none"
                         THEN UpdateError(id, patch, requestTime)
                         ELSE IF fault = "storeFails"
                         THEN "Error updating appointment" ELSE "none",
                 at |-> requestTime, summary |-> NoSummary, sent |-> {},
                 id |-> id, patch |-> patch,
                 previous |-> IF id \in Ids THEN appts[id] ELSE NoRow ]
    /\ UNCHANGED <<tz, inFlight, nextId, busyDays, busySlots, nextSlotId>>

\* updateAppointment when the store or the mailer may fail: the write is
\* made once the checks have passed and the store accepts it, and a throw
\* that comes after it goes through the catch block, which undoes nothing
UpdateAppointmentFaulty(id, patch, requestTime, fault) ==
    /\ IF UpdateError(id, patch, requestTime) = "none" /\ fault # "storeFails"
       THEN appts' = [appts EXCEPT ![id] = UpdatedRow(id, patch)]
       ELSE UNCHANGED appts
    /\ last' = [ op |-> "update",
                 err |-> FaultyError(id, patch, requestTime, fault),
                 at |-> requestTime, summary |-> NoSummary,
                 sent |-> IF FaultyError(id, patch, requestTime, fault) = "none"
                          THEN Notifications(id, patch) ELSE {},
                 id |-> id, patch |-> patch,
                 previous |-> IF id \in Ids THEN appts[id] ELSE NoRow ]
    /\ UNCHANGED <<tz, inFlight, nextId, busyDays, busySlots, nextSlotId>>

----------------------------------------------------------------------------
(* appointment-services: deleteAppointment (soft delete) *)

DeleteAppointment(id) ==
    /\ IF id \in Ids
       THEN appts' = [appts EXCEPT ![id].isDeleted = TRUE]
       ELSE UNCHANGED appts
    /\ last' = Outcome("delete", IF id \in Ids THEN "none" ELSE "notfound", NoTime)
    /\ UNCHANGED <<tz, inFlight, nextId, busyDays, busySlots, nextSlotId>>

----------------------------------------------------------------------------
(* busy-day-services: markDayAsBusy, the cascading reschedule *)

\* what the store does while one appointment is processed
Fates == {"ok", "findFails", "updateFails"}

\* a cascade that takes every row of the day, whatever its status
activeAppointmentsAnyStatus(tbl, normalizedDate) ==
    findAllAppointments(tbl, normalizedDate)

\* the rows findAllAppointments returned that are approved or pending
activeAppointments(tbl, normalizedDate) ==
    SelectSeq(findAllAppointments(tbl, normalizedDate),
              LAMBDA i : tbl[i].status \in {"approved", "pending"})

\* an iteration that forgets the appointment whose update throws
MoveOneDropping(st, bds, normalizedDate, id, appointment, fate) ==
    LET nextDate == findNextAvailableDate(st.tbl, bds, normalizedDate,
                                          appointment.start, appointment.end,
                                          SearchHorizon)
    IN  IF fate = "ok" /\ nextDate # NoDate
        THEN [st EXCEPT
                !.tbl = [@ EXCEPT ![id] = [@ EXCEPT
                           !.date = nextDate,
                           !.start = SetHours(nextDate, LocalTod(appointment.start)),
                           !.end = SetHours(nextDate, LocalTod(appointment.end))]],
                !.moved = Append(@, id)]
        ELSE IF fate = "findFails"
        THEN [st EXCEPT !.failed = Append(@, id),
                        !.reasons = Append(@, "Error finding next available date")]
        ELSE st

\* one iteration of the loop, for the row `appointment` read before the loop:
\* st is [tbl, moved, failed, reasons]
MoveOne(st, bds, normalizedDate, id, appointment, fate) ==
    LET nextDate == findNextAvailableDate(st.tbl, bds, normalizedDate,
                                          appointment.start, appointment.end,
                                          SearchHorizon)
        newStartTime == SetHours(nextDate, LocalTod(appointment.start))
        newEndTime == SetHours(nextDate, LocalTod(appointment.end))
    IN  IF fate = "findFails"
        THEN [st EXCEPT !.failed = Append(@, id),
                        !.reasons = Append(@, "Error finding next available date")]
        ELSE IF nextDate # NoDate
        THEN IF fate = "updateFails"
             THEN [st EXCEPT !.failed = Append(@, id),
                             !.reasons = Append(@, "Error updating appointment")]
             ELSE [st EXCEPT
                     !.tbl = [@ EXCEPT ![id] = [@ EXCEPT !.date = nextDate,
                                                         !.start = newStartTime,
                                                         !.end = newEndTime]],
                     !.moved = Append(@, id)]
        ELSE IF fate = "updateFails"
             THEN [st EXCEPT !.failed = Append(@, id),
                             !.reasons = Append(@, "Error updating appointment")]
             ELSE [st EXCEPT
                     !.tbl = [@ EXCEPT ![id] = [@ EXCEPT !.status = "rejected"]],
                     !.failed = Append(@, id),
                     !.reasons = Append(@, "No available date found within 60 days")]

\* a loop that stops at the first appointment the store fails on
RECURSIVE MoveAllAborting(_, _, _, _, _, _, _)
MoveAllAborting(st, bds, normalizedDate, active, snapshot, fates, k) ==
    IF k > Len(active) THEN st
    ELSE IF fates[active[k]] # "ok"
    THEN MoveOne(st, bds, normalizedDate, active[k], snapshot[active[k]],
                 fates[active[k]])
    ELSE MoveAllAborting(MoveOne(st, bds, normalizedDate, active[k],
                                 snapshot[active[k]], fates[active[k]]),
                         bds, normalizedDate, active, snapshot, fates, k + 1)

\* the loop over activeAppointments from position k on
RECURSIVE MoveAll(_, _, _, _, _, _, _)
MoveAll(st, bds, normalizedDate, active, snapshot, fates, k) ==
    IF k > Len(active) THEN st
    ELSE MoveAll(MoveOne(st, bds, normalizedDate, active[k], snapshot[active[k]],
                         fates[active[k]]),
                 bds, normalizedDate, active, snapshot, fates, k + 1)

\* the ids markDayAsBusy(date) processes
Affected(date) ==
    { i \in Ids : \E k \in DOMAIN activeAppointments(appts, StartOfDay(date)) :
                     activeAppointments(appts, StartOfDay(date))[k] = i }

markDayAsBusy(date, fates) ==
    LET bds == markDayAsBusyData(busyDays, date)
        normalizedDate == StartOfDay(date)
        active == activeAppointments(appts, normalizedDate)
        done == MoveAll([tbl |-> appts, moved |-> <<>>, failed |-> <<>>,
                         reasons |-> <<>>],
                        bds, normalizedDate, active, appts, fates, 1)
    IN  /\ busyDays' = bds
        /\ appts' = done.tbl
        /\ last' = [op |-> "blockDay", err |-> "none", at |-> NoTime,
                    summary |-> [day |-> normalizedDate,
                                 moved |-> done.moved, failed |-> done.failed,
                                 reasons |-> done.reasons]]
        /\ UNCHANGED <<tz, inFlight, nextId, busySlots, nextSlotId>>

\* busy-day-services: unmarkDayAsBusy
unmarkDayAsBusy(date) ==
    /\ busyDays' = unmarkDayAsBusyData(busyDays, date)
    /\ last' = [Outcome("unblockDay", "none", NoTime) EXCEPT
                   !.summary.day = StartOfDay(date)]
    /\ UNCHANGED <<tz, inFlight, appts, nextId, busySlots, nextSlotId>>

----------------------------------------------------------------------------
(* busy-time-slot-data and busy-time-slot-services *)

\* the row busy-time-slot-data markTimeSlotAsBusy creates: the date is UTC
\* midnight of the local day of `date`, the times are the local times of day
\* of startTime and endTime put on that day
SlotRow(id, date, startTime, endTime) ==
    [ id |-> id,
      date |-> LocalDay(date) * MinutesPerDay,
      start |-> LocalDate(LocalDay(date), LocalTod(startTime)),
      end |-> LocalDate(LocalDay(date), LocalTod(endTime)) ]

\* the error the service markTimeSlotAsBusy throws, "none" when it creates
MarkSlotError(date, startTime, endTime) ==
    IF endTime <= startTime THEN "End time must be after start time"
    ELSE IF isTimeSlotBusy(busySlots, date, startTime, endTime)
         THEN "This time slot is already marked as busy"
    ELSE "none"

markTimeSlotAsBusy(date, startTime, endTime) ==
    LET err == MarkSlotError(date, startTime, endTime)
        row == SlotRow(nextSlotId, date, startTime, endTime)
    IN  /\ IF err = "none"
           THEN /\ busySlots' = busySlots \cup {row}
                /\ nextSlotId' = nextSlotId + 1
           ELSE UNCHANGED <<busySlots, nextSlotId>>
        /\ last' = [ op |-> "blockSlot", err |-> err, at |-> NoTime,
                     summary |-> NoSummary, slot |-> row ]
        /\ UNCHANGED <<tz, inFlight, appts, nextId, busyDays>>

\* the service throws when the data layer's delete found no row
unmarkTimeSlotAsBusy(id) ==
    /\ busySlots' = { s \in busySlots : s.id # id }
    /\ last' = [ op |-> "unblockSlot",
                 err |-> IF \E s \in busySlots : s.id = id
                         THEN "none" ELSE "Busy time slot not found",
                 at |-> NoTime, summary |-> NoSummary, id |-> id ]
    /\ UNCHANGED <<tz, inFlight, appts, nextId, busyDays, nextSlotId>>

----------------------------------------------------------------------------
(* The services step by step: every await on the store is a point where    *)
(* another call may run. A call in flight keeps what it has read.           *)

Callers == {"a", "b"}

Finished(c) == c \in DOMAIN inFlight /\ inFlight[c].pc = "done"

\* updateAppointment, line 224: findAppointmentById
UpdateBegin(c, id, patch, requestTime) ==
    /\ c \notin DOMAIN inFlight
    /\ inFlight' = inFlight @@
          (c :> [ op |-> "update", id |-> id, patch |-> patch, at |-> requestTime,
                  pc |-> IF id \in Ids THEN "check" ELSE "done",
                  err |-> IF id \in Ids THEN "none" ELSE "notfound",
                  existing |-> IF id \in Ids THEN appts[id] ELSE NoRow ])
    /\ last' = IF id \in Ids THEN last ELSE Outcome("update", "notfound", requestTime)
    /\ UNCHANGED <<tz, appts, nextId, busyDays, busySlots, nextSlotId>>

\* lines 232-333: the checks, made on the row read at the start and on the
\* store as it is now
UpdateCheck(c) ==
    /\ c \in DOMAIN inFlight
    /\ inFlight[c].op = "update" /\ inFlight[c].pc = "check"
    /\ LET call == inFlight[c]
           err == CheckError(call.existing, call.id, call.patch, call.at)
       IN  /\ inFlight' = [inFlight EXCEPT
                              ![c].pc = IF err = "none" THEN "write" ELSE "done",
                              ![c].err = err]
           /\ last' = IF err = "none" THEN last
                      ELSE Outcome("update", err, call.at)
    /\ UNCHANGED <<tz, appts, nextId, busyDays, busySlots, nextSlotId>>

\* lines 336-346: the write, of the date and the times computed from the
\* row read at the start, and of the status when the patch holds one
UpdateCommit(c) ==
    /\ c \in DOMAIN inFlight
    /\ inFlight[c].op = "update" /\ inFlight[c].pc = "write"
    /\ LET call == inFlight[c]
           startTime == IF call.patch.start # NoTime THEN call.patch.start
                        ELSE call.existing.start
           endTime == IF call.patch.end # NoTime THEN call.patch.end
                      ELSE call.existing.end
       IN  /\ appts' = [appts EXCEPT ![call.id] =
                          [@ EXCEPT !.date = getUTCDateOnly(startTime),
                                    !.start = startTime,
                                    !.end = endTime,
                                    !.status = IF call.patch.status # "absent"
                                               THEN call.patch.status ELSE @]]
           /\ inFlight' = [inFlight EXCEPT ![c].pc = "done"]
           /\ last' = Outcome("update", "none", call.at)
    /\ UNCHANGED <<tz, nextId, busyDays, busySlots, nextSlotId>>

\* markDayAsBusy, line 12: the busy day is written
BlockBegin(c, date) ==
    /\ c \notin DOMAIN inFlight
    /\ busyDays' = markDayAsBusyData(busyDays, date)
    /\ inFlight' = inFlight @@
          (c :> [ op |-> "blockDay", pc |-> "query", date |-> StartOfDay(date),
                  active |-> <<>>, snapshot |-> <<>>, k |-> 1,
                  moved |-> <<>>, failed |-> <<>>, reasons |-> <<>> ])
    /\ UNCHANGED <<tz, appts, nextId, busySlots, nextSlotId, last>>

\* the summary markDayAsBusy returns
BlockOutcome(call) ==
    [ Outcome("blockDay", "none", NoTime) EXCEPT
        !.summary = [ day |-> call.date, moved |-> call.moved,
                      failed |-> call.failed, reasons |-> call.reasons ] ]

\* lines 20-30: the day's appointments are read and filtered
BlockQuery(c) ==
    /\ c \in DOMAIN inFlight
    /\ inFlight[c].op = "blockDay" /\ inFlight[c].pc = "query"
    /\ LET active == activeAppointments(appts, inFlight[c].date)
           call == [ inFlight[c] EXCEPT
                       !.active = active,
                       !.snapshot = [ k \in DOMAIN active |-> appts[active[k]] ],
                       !.pc = IF active = <<>> THEN "done" ELSE "move" ]
       IN  /\ inFlight' = [inFlight EXCEPT ![c] = call]
           /\ last' = IF active = <<>> THEN BlockOutcome(call) ELSE last
    /\ UNCHANGED <<tz, appts, nextId, busyDays, busySlots, nextSlotId>>

\* lines 36-88: one iteration of the loop, for the row as it was read
BlockMove(c, fate) ==
    /\ c \in DOMAIN inFlight
    /\ inFlight[c].op = "blockDay" /\ inFlight[c].pc = "move"
    /\ LET call == inFlight[c]
           st == MoveOne([ tbl |-> appts, moved |-> call.moved,
                           failed |-> call.failed, reasons |-> call.reasons ],
                         busyDays, call.date, call.active[call.k],
                         call.snapshot[call.k], fate)
           after == [ call EXCEPT
                        !.moved = st.moved, !.failed = st.failed,
                        !.reasons = st.reasons, !.k = call.k + 1,
                        !.pc = IF call.k = Len(call.active) THEN "done" ELSE "move" ]
       IN  /\ appts' = st.tbl
           /\ inFlight' = [inFlight EXCEPT ![c] = after]
           /\ last' = IF after.pc = "done" THEN BlockOutcome(after) ELSE last
    /\ UNCHANGED <<tz, nextId, busyDays, busySlots, nextSlotId>>

----------------------------------------------------------------------------
(* Requests *)

\* a request for local day d from s to e, its date sent as "YYYY-MM-DD"
\* (UTC midnight of d) or as an instant (local midnight of d)
Request(dateForm, d, s, e, status) ==
    [ fullName |-> TRUE, email |-> TRUE,
      date |-> IF dateForm = "utc" THEN d * MinutesPerDay ELSE LocalDate(d, 0),
      start |-> LocalDate(d, s), end |-> LocalDate(d, e), status |-> status ]

Patch(date, start, end, status) ==
    [date |-> date, start |-> start, end |-> end, status |-> status]

\* a patch of the status alone
StatusPatches ==
    { Patch(NoDate, NoTime, NoTime, st) : st \in {"pending", "approved", "rejected"} }

\* a patch that reschedules to local day d from s to e
Reschedule(d, s, e, status) ==
    Patch(d * MinutesPerDay, LocalDate(d, s), LocalDate(d, e), status)

\* Friday 13:00, before the cutoff
BeforeCutoff == LocalDate(1, (DeadlineHour - 1) * 60)
\* Friday 14:00, the cutoff
AtCutoff == LocalDate(1, DeadlineHour * 60)

----------------------------------------------------------------------------
(* Spec: the services over a table of MaxAppts appointments *)

\* the periods requests name: 10:00-12:00 and 12:00-13:00
Periods == {<<10 * 60, 12 * 60>>, <<12 * 60, 13 * 60>>}

CreateRequests ==
    { Request("utc", d, p[1], p[2], st) :
        d \in Days, p \in Periods, st \in {"pending", "approved"} }

Patches ==
    StatusPatches
    \cup { Reschedule(d, p[1], p[2], st) :
             d \in Days, p \in Periods, st \in {"absent", "approved"} }

Init ==
    /\ tz \in Zones
    /\ appts = << >>
    /\ nextId = 1
    /\ busyDays = {}
    /\ busySlots = {}
    /\ nextSlotId = 1
    /\ last = Outcome("start", "none", NoTime)
    /\ inFlight = NoCalls

Next ==
    \/ \E req \in CreateRequests :
          nextId <= MaxAppts /\ CreateAppointment(req, BeforeCutoff)
    \/ \E id \in 1 .. MaxAppts, patch \in Patches :
          UpdateAppointment(id, patch, BeforeCutoff)
    \/ \E id \in 1 .. MaxAppts : DeleteAppointment(id)
    \/ \E d \in Days :
          \E fates \in [Affected(LocalDate(d, 0)) -> Fates] :
             markDayAsBusy(LocalDate(d, 0), fates)
    \/ \E d \in Days : unmarkDayAsBusy(LocalDate(d, 0))

Spec == Init /\ [][Next]_vars

----------------------------------------------------------------------------
(* SpecFind: findConflictingAppointments asked of the tables the services   *)
(* can leave behind                                                          *)

\* the periods of the rows and of the queries: within 10:00-12:00
FindPeriods == {<<10 * 60, 11 * 60>>, <<11 * 60, 12 * 60>>, <<10 * 60, 12 * 60>>}

\* a stored row: its date is UTC midnight (written by create and update) or
\* local midnight (written by the cascade)
FindRows ==
    { [ date |-> IF f = "utc" THEN d * MinutesPerDay ELSE LocalDate(d, 0),
        start |-> LocalDate(d, p[1]), end |-> LocalDate(d, p[2]),
        status |-> c[1], isDeleted |-> c[2] ] :
        f \in {"utc", "local"}, d \in Days, p \in FindPeriods,
        c \in { <<"pending", FALSE>>, <<"rejected", FALSE>>,
                <<"approved", FALSE>>, <<"approved", TRUE>> } }

\* a query as updateAppointment (UTC midnight) and findNextAvailableDate
\* (local midnight) make it
FindQueries ==
    { [ date |-> IF f = "utc" THEN d * MinutesPerDay ELSE LocalDate(d, 0),
        start |-> LocalDate(d, p[1]), end |-> LocalDate(d, p[2]),
        exclude |-> x ] :
        f \in {"utc", "local"}, d \in Days, p \in FindPeriods, x \in {NoId, 1} }

Find(q) ==
    /\ last' = [ op |-> "find", err |-> "none", at |-> NoTime,
                 summary |-> NoSummary, query |-> q,
                 found |-> findConflictingAppointments(appts, q.date, q.start,
                                                       q.end, q.exclude) ]
    /\ UNCHANGED <<tz, inFlight, appts, nextId, busyDays, busySlots, nextSlotId>>

InitFind ==
    /\ tz \in Zones
    /\ appts \in [1 .. 2 -> FindRows]
    /\ nextId = 3
    /\ busyDays = {}
    /\ busySlots = {}
    /\ nextSlotId = 1
    /\ last = Outcome("start", "none", NoTime)
    /\ inFlight = NoCalls

NextFind == \E q \in FindQueries : Find(q)

SpecFind == InitFind /\ [][NextFind]_vars

----------------------------------------------------------------------------
(* SpecCalendar: one booking, over the hours around the lunch break and the *)
(* instants around the cutoff                                                *)

CalendarPeriods ==
    { <<11 * 60, 12 * 60>>, <<11 * 60 + 30, 12 * 60 + 30>>,
      <<12 * 60, 13 * 60>>, <<13 * 60, 14 * 60>> }

\* requests the validation has to refuse, and one without the email
Malformed ==
    LET r == Request("utc", 1, 11 * 60, 12 * 60, "pending")
    IN  { [r EXCEPT !.fullName = FALSE],
          [r EXCEPT !.email = FALSE],
          [r EXCEPT !.end = r.start],
          [r EXCEPT !.end = LocalDate(2, 11 * 60)] }

CalendarRequests ==
    { Request(f, d, p[1], p[2], "pending") :
        f \in {"utc", "local"}, d \in Days, p \in CalendarPeriods }
    \cup Malformed

CalendarPatches ==
    StatusPatches
    \cup { Reschedule(d, p[1], p[2], "absent") : d \in Days, p \in CalendarPeriods }
    \cup { Patch(d * MinutesPerDay, NoTime, NoTime, "absent") : d \in Days }
    \cup { Patch(NoDate, LocalDate(1, 13 * 60), NoTime, "absent"),
           Patch(NoDate, NoTime, LocalDate(1, 11 * 60), "absent") }

RequestTimes == {BeforeCutoff, AtCutoff}

NextCalendar ==
    \/ \E req \in CalendarRequests, t \in RequestTimes :
          nextId = 1 /\ CreateAppointment(req, t)
    \/ \E patch \in CalendarPatches, t \in RequestTimes :
          UpdateAppointment(1, patch, t)
    \/ DeleteAppointment(1)

SpecCalendar == Init /\ [][NextCalendar]_vars

----------------------------------------------------------------------------
(* SpecZones: bookings in office hours and in the hours where the UTC day   *)
(* and the local day differ, and the cascade                                 *)

\* "YYYY-MM-DD" of day d with 23:00Z-23:30Z of that day
LateUTCRequest(d) ==
    [ fullName |-> TRUE, email |-> TRUE, date |-> d * MinutesPerDay,
      start |-> d * MinutesPerDay + 23 * 60,
      end |-> d * MinutesPerDay + 23 * 60 + 30, status |-> "pending" ]

ZoneRequests ==
    { Request("utc", d, 10 * 60, 12 * 60, "pending") : d \in Days }
    \cup { LateUTCRequest(d) : d \in Days }

NextZones ==
    \/ \E req \in ZoneRequests :
          nextId <= MaxAppts /\ CreateAppointment(req, BeforeCutoff)
    \/ \E id \in 1 .. MaxAppts, patch \in StatusPatches :
          UpdateAppointment(id, patch, BeforeCutoff)
    \/ \E d \in Days :
          markDayAsBusy(LocalDate(d, 0), [i \in Affected(LocalDate(d, 0)) |-> "ok"])

SpecZones == Init /\ [][NextZones]_vars

----------------------------------------------------------------------------
(* SpecSlots: the busy time slots; a request names a day, and a start and   *)
(* an end that are instants of that day or of another one                    *)

\* the hours of the slot requests; the last two end no later in the day
\* than they start, which is a valid request when the end is on a later day
SlotPeriods ==
    { <<10 * 60, 11 * 60>>, <<11 * 60, 12 * 60>>, <<10 * 60, 12 * 60>>,
      <<10 * 60, 10 * 60>>, <<11 * 60, 10 * 60>> }

NextSlots ==
    \/ \E d \in Days, ds \in Days, de \in Days, p \in SlotPeriods :
          /\ nextSlotId <= MaxSlots
          /\ markTimeSlotAsBusy(LocalDate(d, 0), LocalDate(ds, p[1]), LocalDate(de, p[2]))
    \/ \E id \in 1 .. MaxSlots : unmarkTimeSlotAsBusy(id)

SpecSlots == Init /\ [][NextSlots]_vars

----------------------------------------------------------------------------
(* SpecNext: findNextAvailableDate asked of a table of one appointment and  *)
(* of the busy days, with small horizons                                     *)

MaxHorizon == 2

NextQueries ==
    { [ date |-> LocalDate(d, 0),
        start |-> LocalDate(d, p[1]), end |-> LocalDate(d, p[2]),
        maxDays |-> h ] :
        d \in Days, p \in FindPeriods, h \in 0 .. MaxHorizon }

FindNext(q) ==
    /\ last' = [ op |-> "findNext", err |-> "none", at |-> NoTime,
                 summary |-> NoSummary, query |-> q,
                 result |-> findNextAvailableDate(appts, busyDays, q.date,
                                                  q.start, q.end, q.maxDays) ]
    /\ UNCHANGED <<tz, inFlight, appts, nextId, busyDays, busySlots, nextSlotId>>

InitNext ==
    /\ tz \in Zones
    /\ appts \in [1 .. 1 -> FindRows]
    /\ nextId = 2
    /\ busyDays \in SUBSET { LocalDate(d, 0) : d \in Days }
    /\ busySlots = {}
    /\ nextSlotId = 1
    /\ last = Outcome("start", "none", NoTime)
    /\ inFlight = NoCalls

NextNext == \E q \in NextQueries : FindNext(q)

SpecNext == InitNext /\ [][NextNext]_vars

----------------------------------------------------------------------------
(* SpecUpdate: updates of the status and of the schedule, asked before and  *)
(* at the cutoff, of appointments that stand on a weekend or a blocked day  *)

UpdateRequests ==
    { Request("utc", d, 10 * 60, 12 * 60, st) :
        d \in Days, st \in {"pending", "approved"} }

UpdatePatches ==
    StatusPatches
    \cup { Reschedule(d, 10 * 60, 12 * 60, st) :
             d \in Days, st \in {"absent", "approved"} }
    \cup { Reschedule(1, 12 * 60, 13 * 60, "absent") }

NextUpdate ==
    \/ \E req \in UpdateRequests :
          nextId <= MaxAppts /\ CreateAppointment(req, BeforeCutoff)
    \/ \E id \in 1 .. MaxAppts, patch \in UpdatePatches, t \in RequestTimes :
          UpdateAppointmentLogged(id, patch, t)
    \/ \E d \in Days :
          markDayAsBusy(LocalDate(d, 0), [i \in Affected(LocalDate(d, 0)) |-> "ok"])

SpecUpdate == Init /\ [][NextUpdate]_vars

----------------------------------------------------------------------------
(* SpecPatch: updates whose patch names the date alone, the date and the     *)
(* times, or the status, with a store or a mailer that may fail              *)

\* a patch of the date alone, to local day d
DatePatches == { Patch(d * MinutesPerDay, NoTime, NoTime, "absent") : d \in Days }

PatchPatches ==
    DatePatches
    \cup { Patch(NoDate, NoTime, NoTime, st) : st \in {"approved", "rejected"} }
    \cup { Reschedule(d, 10 * 60, 12 * 60, "absent") : d \in Days }
    \cup { Reschedule(1, 12 * 60, 13 * 60, "absent") }
    \cup { Patch(NoDate, NoTime, LocalDate(1, 9 * 60), "absent") }

NextPatch ==
    \/ \E req \in UpdateRequests :
          nextId <= MaxAppts /\ CreateAppointment(req, BeforeCutoff)
    \/ \E id \in 1 .. MaxAppts, patch \in PatchPatches, t \in RequestTimes,
          fault \in Faults :
          UpdateAppointmentFaulty(id, patch, t, fault)
    \/ \E d \in Days :
          markDayAsBusy(LocalDate(d, 0), [i \in Affected(LocalDate(d, 0)) |-> "ok"])

SpecPatch == Init /\ [][NextPatch]_vars

----------------------------------------------------------------------------
(* SpecRace: two callers, each making one call, their steps interleaved,    *)
(* over two pending appointments booked for 10:00-12:00                      *)

\* the approval, and the move to Friday 10:00-12:00
RacePatches ==
    { Patch(NoDate, NoTime, NoTime, "approved"),
      Reschedule(1, 10 * 60, 12 * 60, "absent") }

\* both appointments on Friday, or the second one on Saturday
InitRace ==
    /\ tz \in Zones
    /\ \E d \in Days :
          appts = << CreatedRow(Request("utc", 1, 10 * 60, 12 * 60, "pending")),
                     CreatedRow(Request("utc", d, 10 * 60, 12 * 60, "pending")) >>
    /\ nextId = 3
    /\ busyDays = {}
    /\ busySlots = {}
    /\ nextSlotId = 1
    /\ last = Outcome("start", "none", NoTime)
    /\ inFlight = NoCalls

NextRace ==
    \/ \E c \in Callers, id \in 1 .. MaxAppts, patch \in RacePatches :
          UpdateBegin(c, id, patch, BeforeCutoff)
    \/ \E c \in Callers : UpdateCheck(c)
    \/ \E c \in Callers : UpdateCommit(c)
    \/ \E c \in Callers : BlockBegin(c, LocalDate(1, 0))
    \/ \E c \in Callers : BlockQuery(c)
    \/ \E c \in Callers : BlockMove(c, "ok")

SpecRace == InitRace /\ [][NextRace]_vars

----------------------------------------------------------------------------
(* The properties *)

\* two stored rows are on one calendar date
SameDate(a, b) == LocalDay(a.date) = LocalDay(b.date)

\* two half-open intervals overlap
Overlap(a, b) == a.start < b.end /\ a.end > b.start

\* the row takes part in conflicts: approved and not deleted
Reserves(r) == r.status = "approved" /\ r.isDeleted = FALSE

\* Saturday or Sunday, counting from day 0, a Thursday
IsWeekend(t) == LocalDay(t) % 7 \in {2, 3}

\* the interval meets 12:00-13:00 of its day
MeetsBreak(r) ==
    /\ LocalTod(r.start) < LunchEndHour * 60
    /\ LocalTod(r.end) > LunchStartHour * 60

CreateSucceeded == last.op = "create" /\ last.err = "none"

\* C1, under Spec: in every reachable state no two distinct non-deleted
\* approved appointments on the same appointment date have overlapping
\* intervals.
NoApprovedOverlap ==
    \A a, b \in Ids :
        (a # b /\ Reserves(appts[a]) /\ Reserves(appts[b])
              /\ SameDate(appts[a], appts[b]))
        => ~Overlap(appts[a], appts[b])

\* C2, under SpecFind: the query returns exactly the stored rows on the
\* query's calendar date that are not deleted, approved, other than the
\* excluded id, and whose interval overlaps the queried one; so no pending,
\* rejected or deleted row and no row that only touches an endpoint.
FindReturnsExactlyTheConflicts ==
    last.op = "find" =>
        /\ last.found =
             { i \in Ids :
                 /\ SameDate(appts[i], last.query)
                 /\ Reserves(appts[i])
                 /\ i # last.query.exclude
                 /\ Overlap(appts[i], last.query) }
        /\ \A i \in last.found :
             /\ appts[i].status \notin {"pending", "rejected"}
             /\ ~appts[i].isDeleted
             /\ appts[i].end # last.query.start
             /\ appts[i].start # last.query.end

\* C2's case: a query that returns one row and leaves out an approved row of
\* the same date that ends where the query starts.
FindLeavesOutTouching ==
    /\ last.op = "find"
    /\ last.found # {}
    /\ \E i \in Ids \ last.found :
         /\ Reserves(appts[i])
         /\ SameDate(appts[i], last.query)
         /\ appts[i].end = last.query.start

\* C3, under SpecCalendar: a create whose appointment date is a Saturday or
\* a Sunday does not succeed, at any request instant.
WeekendCreateRejected ==
    (last.op = "create" /\ IsWeekend(last.req.date)) => last.err # "none"

\* C4, under SpecCalendar: a create for the current calendar date made at
\* 14:00 or later does not succeed.
SameDayCreateAfterCutoffRejected ==
    ( /\ last.op = "create"
      /\ LocalDay(last.req.date) = LocalDay(last.at)
      /\ LocalTod(last.at) >= DeadlineHour * 60 )
    => last.err # "none"

\* C5, under SpecCalendar: a create whose interval meets 12:00-13:00
\* (start < 13:00 and end > 12:00) does not succeed.
BreakCreateRejected ==
    (last.op = "create" /\ MeetsBreak(last.req)) => last.err # "none"

\* C6, under Spec: nothing is newly booked on a blocked day: after a create
\* that succeeded, no BusyDay record exists for the created appointment's
\* date.
NothingBookedOnBlockedDay ==
    CreateSucceeded =>
        \A b \in busyDays : LocalDay(b) # LocalDay(Created.date)

\* start < end, and start and end on the UTC calendar date of the date
DatedInUTC(r) ==
    /\ r.start < r.end
    /\ ISODate(r.start) = ISODate(r.date)
    /\ ISODate(r.end) = ISODate(r.date)

\* start < end, and start and end on the local calendar date of the date
DatedLocally(r) ==
    /\ r.start < r.end
    /\ LocalDay(r.start) = LocalDay(r.date)
    /\ LocalDay(r.end) = LocalDay(r.date)

\* C7, under SpecZones: every stored appointment has start < end and has its
\* start and its end on the calendar date of its appointment date, the
\* calendar being read one way for all of them: in UTC or in the server's
\* zone.
StartAndEndOnTheDate ==
    \/ \A i \in Ids : DatedInUTC(appts[i])
    \/ \A i \in Ids : DatedLocally(appts[i])

\* C8, under SpecCalendar: a create request with a name, a date, and a start
\* before an end on that date, and no contact email, is not refused for the
\* missing email.
EmailIsOptional ==
    ( /\ last.op = "create"
      /\ last.req.fullName
      /\ ~last.req.email
      /\ DatedInUTC(last.req)
      /\ DatedLocally(last.req) )
    => last.err # "DepEd email is required"

\* the elements of a list
Range(q) == { q[k] : k \in DOMAIN q }

\* C9, under Spec: a markDayAsBusy(D) step returns a summary in which each of
\* the N non-deleted pending or approved appointments that were on D appears
\* exactly once, in the moved list or in the failed list, so that the two
\* lengths add up to N, also when the store fails on some of them.
EachAffectedCountedOnce ==
    [][ last'.op = "blockDay" =>
          LET onDay == { i \in Ids :
                           /\ ~appts[i].isDeleted
                           /\ appts[i].status \in {"pending", "approved"}
                           /\ LocalDay(appts[i].date) = LocalDay(last'.summary.day) }
              moved == last'.summary.moved
              failed == last'.summary.failed
          IN  /\ Range(moved) \cup Range(failed) = onDay
              /\ Range(moved) \cap Range(failed) = {}
              /\ Len(moved) + Len(failed) = Cardinality(onDay) ]_vars

\* C9's case: a markDayAsBusy that moved one appointment and failed on
\* another.
BlockDayMovedAndFailed ==
    /\ last.op = "blockDay"
    /\ Len(last.summary.moved) >= 1
    /\ Len(last.summary.failed) >= 1

\* no BusyDay record exists for the row's date
NotOnBlockedDay(r) == \A b \in busyDays : LocalDay(b) # LocalDay(r.date)

\* the other rows that reserve a slot on r's date and overlap r
ConflictsOf(id) ==
    { z \in Ids \ {id} :
        /\ Reserves(appts[z])
        /\ SameDate(appts[z], appts[id])
        /\ Overlap(appts[z], appts[id]) }

\* C10 as stated, under Spec: when markDayAsBusy returns, every appointment
\* in its moved list is on a date without a BusyDay record and no other
\* non-deleted approved appointment on that date overlaps it.
MovedHaveNoConflicts ==
    last.op = "blockDay" =>
        \A k \in DOMAIN last.summary.moved :
            /\ NotOnBlockedDay(appts[last.summary.moved[k]])
            /\ ConflictsOf(last.summary.moved[k]) = {}

\* C10 amended, under Spec: when markDayAsBusy returns, every appointment in
\* its moved list is on a date without a BusyDay record; a moved approved
\* appointment has no conflicts, and a moved pending appointment is only
\* overlapped by approved appointments that the same call moved after it.
MovedHadNoConflictsWhenMoved ==
    last.op = "blockDay" =>
        \A k \in DOMAIN last.summary.moved :
            LET id == last.summary.moved[k] IN
            /\ NotOnBlockedDay(appts[id])
            /\ \A z \in ConflictsOf(id) :
                 /\ appts[id].status = "pending"
                 /\ \E j \in DOMAIN last.summary.moved :
                      j > k /\ last.summary.moved[j] = z

\* C10's case: a markDayAsBusy that moved a pending appointment and then an
\* approved one onto the same slot.
ApprovedMovedOntoPending ==
    /\ last.op = "blockDay"
    /\ \E k \in DOMAIN last.summary.moved :
         ConflictsOf(last.summary.moved[k]) # {}

\* C11, under Spec: when markDayAsBusy returns, every appointment in its
\* failed list has the stored status rejected.
FailedAreRejected ==
    last.op = "blockDay" =>
        \A k \in DOMAIN last.summary.failed :
            appts[last.summary.failed[k]].status = "rejected"

\* the reasons the cascade reports for a store error
StoreErrors == {"Error finding next available date", "Error updating appointment"}

\* the non-deleted pending or approved rows on the local day of instant d
OnDay(d) ==
    { i \in Ids :
        /\ ~appts[i].isDeleted
        /\ appts[i].status \in {"pending", "approved"}
        /\ LocalDay(appts[i].date) = LocalDay(d) }

SecondBlockDayFindsNothing ==
    [][ ( /\ last.op = "blockDay"
          /\ last'.op = "blockDay"
          /\ last'.summary.day = last.summary.day )
        => /\ Cardinality({ b \in busyDays' : LocalDay(b) = LocalDay(last'.summary.day) }) = 1
           /\ last'.summary.moved = <<>>
           /\ last'.summary.failed = <<>>
           /\ appts' = appts ]_vars

\* C14, under Spec: after an unmarkDayAsBusy(D) step isDayBusy(D) is false
\* (no BusyDay record is left for D) and every appointment is stored as
\* before the step.
UnblockDayOnlyUnblocks ==
    [][ last'.op = "unblockDay" =>
          /\ ~isDayBusy(busyDays', last'.summary.day)
          /\ \A b \in busyDays' : LocalDay(b) # LocalDay(last'.summary.day)
          /\ appts' = appts ]_vars

\* C14's case: after an unmarkDayAsBusy no BusyDay record is left, while an
\* appointment that a cascade moved off the requested days is stored on its
\* new day.
UnblockedAfterACascade ==
    /\ last.op = "unblockDay"
    /\ busyDays = {}
    /\ \E i \in Ids : LocalDay(appts[i].date) > MaxDay /\ appts[i].status # "rejected"

\* C15, under SpecSlots: no two stored busy time slots of the same date have
\* overlapping ranges.
BusySlotsDoNotOverlap ==
    \A a, b \in busySlots :
        (a.id # b.id /\ a.date = b.date) => ~Overlap(a, b)

\* C16, under SpecSlots: an unmarkTimeSlotAsBusy(id) step for an id that has
\* no busy time slot completes without an error and leaves the busy time
\* slots as they were.
UnblockAbsentSlotIsNoOp ==
    [][ ( /\ last'.op = "unblockSlot"
          /\ \A s \in busySlots : s.id # last'.id )
        => /\ last'.err = "none"
           /\ busySlots' = busySlots ]_vars

\* the day of the query is free: it has no BusyDay record and no stored
\* approved appointment of that day overlaps the queried interval
QueryDayIsFree(q) ==
    /\ \A b \in busyDays : LocalDay(b) # LocalDay(q.date)
    /\ \A i \in Ids :
         (Reserves(appts[i]) /\ SameDate(appts[i], q)) => ~Overlap(appts[i], q)

\* C17, under SpecNext: findNextAvailableDate with a horizon of 0 returns
\* fromDate when fromDate itself is free.
HorizonZeroReturnsFreeFromDate ==
    ( /\ last.op = "findNext"
      /\ last.query.maxDays = 0
      /\ QueryDayIsFree(last.query) )
    => /\ last.result # NoDate
       /\ LocalDay(last.result) = LocalDay(last.query.date)

\* the last call was an update of a stored appointment
UpdateCalled == last.op = "update" /\ last.previous # NoRow

\* another row reserves a slot on the date of the row r, as it was stored
\* before the call, and overlaps it
ApprovedOverlaps(id, r) ==
    \E z \in Ids \ {id} :
       Reserves(appts[z]) /\ SameDate(appts[z], r) /\ Overlap(appts[z], r)

\* the request was made on the local day of instant t, at or after 14:00
PastCutoffFor(t, at) ==
    LocalDay(t) = LocalDay(at) /\ LocalTod(at) >= DeadlineHour * 60

\* C18, under SpecUpdate: an update whose patch holds neither the date nor
\* a time fails exactly when another approved, non-deleted appointment
\* overlaps the stored interval, and then with the conflict error, whatever
\* the stored date is (weekend, blocked, past the cutoff); an update whose
\* patch holds the date and the times succeeds only if the new day is no
\* weekend, is not blocked, is not past the cutoff and the new interval
\* does not meet the break.
StatusOnlyUpdateSkipsTheCalendar ==
    UpdateCalled =>
      IF ~TouchesSchedule(last.patch)
      THEN last.err = IF ApprovedOverlaps(last.id, last.previous)
                      THEN "conflict" ELSE "none"
      ELSE last.err = "none" =>
             /\ ~IsWeekend(last.patch.start)
             /\ ~PastCutoffFor(last.patch.start, last.at)
             /\ ~MeetsBreak(last.patch)
             /\ NotOnBlockedDay(last.patch)

\* a status-only update went through for an appointment stored on a
\* blocked Saturday
StatusChangedOnABlockedWeekend ==
    /\ UpdateCalled
    /\ ~TouchesSchedule(last.patch)
    /\ last.err = "none"
    /\ IsWeekend(last.previous.date)
    /\ ~NotOnBlockedDay(last.previous)

\* the last call was an update that reached the write
UpdateSucceeded == UpdateCalled /\ last.err = "none"

\* C19, under SpecUpdate, where every appointment was created with a
\* contact email: a successful update sends the approved notice iff the
\* status became approved from another status, the rejected notice iff it
\* became rejected from another status, and the rescheduled notice iff the
\* date, the start or the end changed.
NotificationsFollowTheChange ==
    UpdateSucceeded =>
      LET now == appts[last.id]
          was == last.previous
      IN  /\ "approved" \in last.sent
                <=> (now.status = "approved" /\ was.status # "approved")
          /\ "rejected" \in last.sent
                <=> (now.status = "rejected" /\ was.status # "rejected")
          /\ "rescheduled" \in last.sent
                <=> (now.date # was.date \/ now.start # was.start
                                         \/ now.end # was.end)

\* C20, under SpecUpdate: a successful update of an appointment whose
\* status is approved or rejected leaves the status as it was, and so does
\* a successful update whose patch holds no status.
ApprovedAndRejectedAreTerminal ==
    ( /\ UpdateSucceeded
      /\ \/ last.previous.status \in {"approved", "rejected"}
         \/ last.patch.status = "absent" )
    => appts[last.id].status = last.previous.status

\* C21, under Spec: a successful deleteAppointment keeps the row and sets
\* its isDeleted flag, changing nothing else; a row whose flag is set keeps
\* it, is not among the rows findConflictingAppointments returns for its own
\* date and interval, is not in the list getAllAppointments returns without
\* an isDeleted option, and is left as it is by every markDayAsBusy step.
DeletedStaysOut ==
    [][ /\ (last'.op = "delete" /\ last'.err = "none") =>
              \E i \in Ids : appts' = [appts EXCEPT ![i].isDeleted = TRUE]
        /\ \A i \in Ids :
              appts[i].isDeleted =>
                /\ i \in DOMAIN appts' /\ appts'[i].isDeleted
                /\ i \notin findConflictingAppointments(appts, appts[i].date,
                                   appts[i].start, appts[i].end, NoId)
                /\ i \notin Range(getAllAppointments(appts))
                /\ last'.op = "blockDay" => appts'[i] = appts[i]
      ]_vars

\* markDayAsBusy moved an appointment off a day on which a soft-deleted
\* pending or approved appointment stands
BlockedDayWithADeleted ==
    /\ last.op = "blockDay"
    /\ Len(last.summary.moved) > 0
    /\ \E i \in Ids :
          /\ appts[i].isDeleted
          /\ appts[i].status \in {"pending", "approved"}
          /\ LocalDay(appts[i].date) = LocalDay(last.summary.day)

\* on local day d nothing is blocked and no approved, non-deleted
\* appointment overlaps the hours of the query q projected onto d
DayIsFreeFor(d, q) ==
    /\ \A b \in busyDays : LocalDay(b) # d
    /\ \A i \in Ids :
         (Reserves(appts[i]) /\ LocalDay(appts[i].date) = d) =>
            ~ ( /\ appts[i].start < LocalDate(d, LocalTod(q.end))
                /\ appts[i].end > LocalDate(d, LocalTod(q.start)) )

\* the free days among the maxDays days that start with the query's date
FreeDaysInWindow(q) ==
    { d \in LocalDay(q.date) .. LocalDay(q.date) + q.maxDays - 1 :
        DayIsFreeFor(d, q) }

\* C22, under SpecNext: findNextAvailableDate returns the earliest free day
\* among the maxDays days that start with fromDate (a day is free when it
\* has no busy day record and no approved, non-deleted appointment overlaps
\* the desired hours on it), and null exactly when none of them is free.
NextAvailableIsEarliestFree ==
    last.op = "findNext" =>
      IF FreeDaysInWindow(last.query) = {}
      THEN last.result = NoDate
      ELSE /\ last.result # NoDate
           /\ LocalDay(last.result) \in FreeDaysInWindow(last.query)
           /\ \A d \in FreeDaysInWindow(last.query) : LocalDay(last.result) <= d

\* the search passed over a blocked or booked first day and returned the
\* second one
SearchReturnedALaterDay ==
    /\ last.op = "findNext"
    /\ last.result # NoDate
    /\ LocalDay(last.result) > LocalDay(last.query.date)

\* C23, under SpecPatch: a successful update whose patch holds the date
\* alone leaves the appointment on the day of the patch, and that day has
\* passed the weekday and the blocked-day checks.
DateOnlyPatchSetsTheDate ==
    ( /\ UpdateSucceeded
      /\ last.patch \in DatePatches )
    => /\ LocalDay(appts[last.id].date) = LocalDay(last.patch.date)
       /\ ~IsWeekend(last.patch.date)
       /\ NotOnBlockedDay(last.patch)

\* C25, under Spec: a markDayAsBusy(D) step leaves every appointment that
\* is rejected, soft-deleted or on another date than D as it was, and
\* changes nothing but the date, the start and the end of each appointment
\* in its moved list.
BlockDayTouchesOnlyTheActiveOfTheDay ==
    [][ last'.op = "blockDay" =>
          \A i \in Ids :
             /\ ( \/ appts[i].isDeleted
                  \/ appts[i].status = "rejected"
                  \/ LocalDay(appts[i].date) # LocalDay(last'.summary.day) )
                => appts'[i] = appts[i]
             /\ i \in Range(last'.summary.moved)
                => appts'[i] = [appts[i] EXCEPT !.date = appts'[i].date,
                                                !.start = appts'[i].start,
                                                !.end = appts'[i].end]
      ]_vars

\* markDayAsBusy moved an appointment off a day on which a rejected
\* appointment stands
MovedBesideARejected ==
    /\ last.op = "blockDay"
    /\ Len(last.summary.moved) > 0
    /\ \E i \in Ids :
          /\ ~appts[i].isDeleted
          /\ appts[i].status = "rejected"
          /\ LocalDay(appts[i].date) = LocalDay(last.summary.day)

\* C26, under SpecRace: when the two callers have each finished an update
\* that approves a pending appointment, the two appointments being
\* different and overlapping on one date, not both calls succeeded and not
\* both appointments are approved.
ConcurrentApprovalsExcludeEachOther ==
    ( /\ Finished("a") /\ Finished("b")
      /\ \A c \in Callers :
            /\ inFlight[c].op = "update"
            /\ inFlight[c].patch = Patch(NoDate, NoTime, NoTime, "approved")
            /\ inFlight[c].existing.status = "pending"
      /\ inFlight["a"].id # inFlight["b"].id
      /\ SameDate(inFlight["a"].existing, inFlight["b"].existing)
      /\ Overlap(inFlight["a"].existing, inFlight["b"].existing) )
    => /\ ~ (inFlight["a"].err = "none" /\ inFlight["b"].err = "none")
       /\ ~ ( /\ Reserves(appts[inFlight["a"].id])
              /\ Reserves(appts[inFlight["b"].id]) )

\* C30, under SpecRace: when an update that moves an appointment onto day D
\* and a markDayAsBusy(D) have both finished, the appointment is not on D,
\* non-deleted and pending or approved.
NothingLeftOnTheDayBlockedMeanwhile ==
    \A u, b \in Callers :
       ( /\ Finished(u) /\ Finished(b)
         /\ inFlight[u].op = "update"
         /\ TouchesSchedule(inFlight[u].patch)
         /\ inFlight[b].op = "blockDay"
         /\ LocalDay(inFlight[u].patch.date) = LocalDay(inFlight[b].date) )
       => LET r == appts[inFlight[u].id]
          IN  ~ ( /\ ~r.isDeleted
                  /\ r.status \in {"pending", "approved"}
                  /\ LocalDay(r.date) = LocalDay(inFlight[b].date) )

\* C28, under Spec: when markDayAsBusy(D) returns, every appointment in its
\* moved list is on a Monday-Friday date after D and overlaps no busy time
\* slot of that date.
MovedLandOnBookableSlots ==
    last.op = "blockDay" =>
      \A k \in DOMAIN last.summary.moved :
         LET r == appts[last.summary.moved[k]]
         IN  /\ ~IsWeekend(r.date)
             /\ LocalDay(r.date) > LocalDay(last.summary.day)
             /\ \A s \in busySlots :
                   LocalDay(s.date) = LocalDay(r.date) => ~Overlap(s, r)

\* C29, under SpecPatch: an update step that ends in an error, thrown by
\* the lookup, the validation, a policy check, the conflict check or the
\* store, leaves the appointment table as it was.
FailedUpdateChangesNothing ==
    [][ (last'.op = "update" /\ last'.err # "none") => appts' = appts ]_vars

\* the store refused the write of an update that had passed every check
StoreRefusedAnUpdate ==
    /\ UpdateCalled
    /\ last.err = "Error updating appointment"


\* C24, under SpecSlots: every stored busy time slot starts before it ends.
BusySlotsStartBeforeTheyEnd ==
    \A s \in busySlots : s.start < s.end

====
